---- MODULE Spec2Model ----
(***************************************************************************)
(* Course Companion backend: the rule-based quiz grader and the attempt    *)
(* store of backend/services/quiz_service.py, and the progress rows and    *)
(* streak calculation of backend/services/progress_service.py.             *)
(*                                                                         *)
(* Text is a sequence of one-character strings, so that str.strip(),       *)
(* str.lower(), membership in the boolean lexicon and regex matching are   *)
(* computed character by character, as Python computes them.               *)
(***************************************************************************)
EXTENDS Integers, Sequences, FiniteSets, TLC

VARIABLES
    settings,     \* Settings singleton: QUIZ_TRIM_WHITESPACE, QUIZ_CASE_INSENSITIVE
    quizzes,      \* quizzes table: quiz id -> row
    questions,    \* questions table: sequence of rows, row i has id i
    attempts,     \* quiz_attempts table: sequence of rows, row i has id i
    req,          \* in-flight submit_quiz coroutines: request -> locals
    gq,           \* grade_answer: the question being graded
    ga,           \* grade_answer: the user_answer argument
    gr,           \* grade_answer: the returned tuple (or the not-yet-called marker)
    progress,     \* progress table: sequence of rows, row i has id i
    mreq,         \* in-flight mark_chapter_complete coroutines: request -> locals
    clock,        \* the wall clock read by datetime.utcnow() / datetime.now(tz)
    view,         \* the response of the latest read-only query
    users,        \* users table: sequence of rows, row i has id i
    chapters,     \* chapters table: sequence of rows, row i has id i
    rreq,         \* in-flight register coroutines: request -> locals
    limiter,      \* Redis: key -> the members of its sorted set
    calls         \* the answers check_rate_limit has given, oldest first

progressVars == <<progress, mreq, clock>>

siteVars == <<users, chapters, rreq, limiter, calls>>

vars == <<settings, quizzes, questions, attempts, req, gq, ga, gr, progressVars, view,
          siteVars>>

-----------------------------------------------------------------------------
(* Bounds of the model *)

\* longest user answer enumerated over ShortAlphabet
MaxLen == 3
\* number of submit_quiz requests that may be in flight together
NumRequests == 3
\* number of mark_chapter_complete requests of a behaviour
NumMarks == 2
\* last instant of the wall clock
MaxTime == 2

-----------------------------------------------------------------------------
(* Python str primitives *)

UpperChars == <<"A","B","C","D","E","F","G","H","I","J","K","L","M",
                "N","O","P","Q","R","S","T","U","V","W","X","Y","Z">>
LowerChars == <<"a","b","c","d","e","f","g","h","i","j","k","l","m",
                "n","o","p","q","r","s","t","u","v","w","x","y","z">>

\* characters str.strip() removes
Whitespace == {" ", "\t", "\n"}

LowerChar(c) ==
    IF \E i \in 1..Len(UpperChars) : UpperChars[i] = c
    THEN LowerChars[CHOOSE i \in 1..Len(UpperChars) : UpperChars[i] = c]
    ELSE c

\* str.lower()
PyLower(s) == [i \in 1..Len(s) |-> LowerChar(s[i])]

\* str.strip(): drop leading and trailing whitespace
PyStrip(s) ==
    LET keep == {i \in 1..Len(s) : s[i] \notin Whitespace}
    IN  IF keep = {} THEN <<>>
        ELSE LET first == CHOOSE i \in keep : \A j \in keep : i <= j
                 last  == CHOOSE i \in keep : \A j \in keep : j <= i
             IN  SubSeq(s, first, last)

-----------------------------------------------------------------------------
(* JSON values of Question.answer_config after json.loads *)

JStr(s)  == [t |-> "str",  v |-> s]
JBool(b) == [t |-> "bool", v |-> b]
JList(l) == [t |-> "list", v |-> l]
JNull    == [t |-> "null", v |-> <<>>]

\* dict.get(key, default)
DictGet(d, key, default) == IF key \in DOMAIN d THEN d[key] ELSE default

\* str(x) for a JSON scalar: str(True) = "True", str(False) = "False"
PyStr(x) ==
    IF x.t = "bool"
    THEN IF x.v THEN <<"T","r","u","e">> ELSE <<"F","a","l","s","e">>
    ELSE IF x.t = "null" THEN <<"N","o","n","e">>
    ELSE x.v

\* truthiness of a JSON value used as a condition
PyTruthy(x) ==
    CASE x.t = "null" -> FALSE
      [] x.t = "bool" -> x.v
      [] OTHER        -> x.v # <<>>

-----------------------------------------------------------------------------
(* re.compile / Pattern.match for patterns made of literals, ".", a postfix *)
(* "*" and "(" (which, with no ")" in the alphabet, never closes)           *)

\* re.compile raises re.error: unterminated group, nothing to repeat,
\* multiple repeat
ReCompileError(p) ==
    \/ \E i \in 1..Len(p) : p[i] = "("
    \/ (Len(p) >= 1 /\ p[1] = "*")
    \/ \E i \in 1..(Len(p) - 1) : p[i] = "*" /\ p[i + 1] = "*"

ReCharMatch(pc, c, ignorecase) ==
    \/ (pc = "." /\ c # "\n")
    \/ (pc # "." /\ IF ignorecase THEN LowerChar(pc) = LowerChar(c) ELSE pc = c)

RECURSIVE ReMatchAt(_, _, _, _, _)
\* does p[i..] match a prefix of s[j..]  (Pattern.match anchors at the start only)
ReMatchAt(p, i, s, j, ignorecase) ==
    IF i > Len(p) THEN TRUE
    ELSE IF i + 1 <= Len(p) /\ p[i + 1] = "*"
    THEN \/ ReMatchAt(p, i + 2, s, j, ignorecase)
         \/ /\ j <= Len(s)
            /\ ReCharMatch(p[i], s[j], ignorecase)
            /\ ReMatchAt(p, i, s, j + 1, ignorecase)
    ELSE /\ j <= Len(s)
         /\ ReCharMatch(p[i], s[j], ignorecase)
         /\ ReMatchAt(p, i + 1, s, j + 1, ignorecase)

\* mutant: Pattern.search in place of Pattern.match
SearchOrFalse(p, s, ignorecase) ==
    IF ReCompileError(p) THEN FALSE
    ELSE \E j \in 1..(Len(s) + 1) : ReMatchAt(p, 1, s, j, ignorecase)

\* bool(re.compile(p, flags).match(s)) inside try/except re.error
ReMatchOrFalse(p, s, ignorecase) ==
    IF ReCompileError(p) THEN FALSE ELSE ReMatchAt(p, 1, s, 1, ignorecase)

-----------------------------------------------------------------------------
(* QuizService grading *)

BoolTrueWords  == { <<"t","r","u","e">>, <<"t">>, <<"y","e","s">>, <<"y">>, <<"1">> }
BoolFalseWords == { <<"f","a","l","s","e">>, <<"f">>, <<"n","o">>, <<"n">>, <<"0">> }

_normalize_boolean(value) ==
    LET v == PyLower(PyStrip(value))
    IN  IF v \in BoolTrueWords THEN TRUE
        ELSE IF v \in BoolFalseWords THEN FALSE
        ELSE FALSE

GradeResult(ok, correct_answer, explanation) ==
    [is_correct |-> ok, correct_answer |-> correct_answer, explanation |-> explanation]

\* mutant: the comparison forgets .lower()
GradeMultipleChoiceCaseSensitive(answer_config, user_answer, question) ==
    LET correct_answer == DictGet(answer_config, "correct", JStr(<<>>)).v
    IN  GradeResult(PyStrip(user_answer) = PyStrip(correct_answer), correct_answer,
                    DictGet(answer_config, "explanation", ""))

_grade_multiple_choice(answer_config, user_answer, question) ==
    LET correct_answer     == DictGet(answer_config, "correct", JStr(<<>>)).v
        explanation        == DictGet(answer_config, "explanation", "")
        user_normalized    == PyLower(PyStrip(user_answer))
        correct_normalized == PyLower(PyStrip(correct_answer))
    IN  GradeResult(user_normalized = correct_normalized, correct_answer, explanation)

_grade_true_false(answer_config, user_answer, question) ==
    LET correct_answer     == DictGet(answer_config, "correct", JStr(<<>>))
        explanation        == DictGet(answer_config, "explanation", "")
        user_normalized    == _normalize_boolean(user_answer)
        correct_normalized == _normalize_boolean(PyStr(correct_answer))
    IN  GradeResult(user_normalized = correct_normalized, PyStr(correct_answer), explanation)

_grade_fill_in_blank(answer_config, user_answer, question) ==
    LET raw             == DictGet(answer_config, "correct", JList(<<>>))
        correct_answers == IF raw.t = "str" THEN <<raw.v>> ELSE raw.v
        explanation     == DictGet(answer_config, "explanation", "")
        regex_pattern   == DictGet(answer_config, "regex", JNull)
        trimmed         == IF question.trim_whitespace \/ settings.QUIZ_TRIM_WHITESPACE
                           THEN PyStrip(user_answer) ELSE user_answer
        fold            == (~question.case_sensitive) \/ settings.QUIZ_CASE_INSENSITIVE
        user_answer_normalized     == IF fold THEN PyLower(trimmed) ELSE trimmed
        correct_answers_normalized ==
            IF fold THEN [i \in 1..Len(correct_answers) |-> PyLower(correct_answers[i])]
            ELSE correct_answers
        is_correct ==
            IF PyTruthy(regex_pattern)
            THEN ReMatchOrFalse(regex_pattern.v, trimmed, ~question.case_sensitive)
            ELSE \E i \in 1..Len(correct_answers_normalized) :
                     correct_answers_normalized[i] = user_answer_normalized
    IN  GradeResult(is_correct,
                    IF correct_answers # <<>> THEN correct_answers[1] ELSE <<>>,
                    explanation)

\* the question types grade_answer dispatches on
KnownQuestionTypes == {"multiple_choice", "true_false", "fill_in_blank"}

\* mutant: an unknown type falls through to the multiple-choice grader
GradeAnswerLenient(question, user_answer) ==
    IF question.question_type = "true_false"
    THEN _grade_true_false(question.answer_config, user_answer, question)
    ELSE IF question.question_type = "fill_in_blank"
    THEN _grade_fill_in_blank(question.answer_config, user_answer, question)
    ELSE _grade_multiple_choice(question.answer_config, user_answer, question)

grade_answer(question, user_answer) ==
    LET answer_config == question.answer_config
    IN  CASE question.question_type = "multiple_choice" ->
                 _grade_multiple_choice(answer_config, user_answer, question)
          [] question.question_type = "true_false" ->
                 _grade_true_false(answer_config, user_answer, question)
          [] question.question_type = "fill_in_blank" ->
                 _grade_fill_in_blank(answer_config, user_answer, question)
          [] OTHER -> GradeResult(FALSE, <<>>, "Unknown question type")

-----------------------------------------------------------------------------
(* int(points_earned / total_points * 100) in IEEE-754 binary64             *)
(*                                                                         *)
(* The quotient is rounded to 53 significant bits (round half to even),    *)
(* the product by 100 is rounded again, and int() truncates.  The 53-bit   *)
(* significand is kept in limbs of 18, 18 and 16 bits below the leading 1, *)
(* so every intermediate fits a machine integer while total_points < 2^12. *)

\* 2^k scaling that brings points_earned / total_points into [1, 2)
FloatScale(pe, tp) ==
    CHOOSE k \in 0..12 : pe * 2^k >= tp /\ (k = 0 \/ pe * 2^(k - 1) < tp)

\* significand of fl(pe / tp): <<leading, F1, F2, F3>>
FloatQuotient(pe, tp) ==
    LET k   == FloatScale(pe, tp)
        r0  == pe * 2^k - tp
        F1  == (r0 * 2^18) \div tp
        r1  == (r0 * 2^18) % tp
        F2  == (r1 * 2^18) \div tp
        r2  == (r1 * 2^18) % tp
        F3  == (r2 * 2^16) \div tp
        r3  == (r2 * 2^16) % tp
        G   == (r3 * 2) \div tp
        r4  == (r3 * 2) % tp
        up  == IF G = 1 /\ (r4 # 0 \/ F3 % 2 = 1) THEN 1 ELSE 0
        n3  == F3 + up
        n2  == F2 + (n3 \div 2^16)
        n1  == F1 + (n2 \div 2^18)
    IN  <<1 + (n1 \div 2^18), n1 % 2^18, n2 % 2^18, n3 % 2^16>>

\* the exact product significand * 100, as limbs <<A, B, C>> of weight
\* 2^34, 2^16 and 1
FloatTimes100(q) ==
    LET t3 == q[4] * 100
        t2 == q[3] * 100 + (t3 \div 2^16)
    IN  <<(q[1] * 2^18 + q[2]) * 100 + (t2 \div 2^18), t2 % 2^18, t3 % 2^16>>

\* round the product to 53 significant bits and truncate it to an integer
FloatRoundTrunc(P, k) ==
    LET d   == IF P[1] < 2^25 THEN 6 ELSE IF P[1] < 2^26 THEN 7 ELSE 8
        rem == P[3] % 2^d
        Cq  == P[3] \div 2^d
        up  == IF rem > 2^(d - 1) \/ (rem = 2^(d - 1) /\ Cq % 2 = 1) THEN 1 ELSE 0
        cB  == (P[2] + ((Cq + up) \div 2^(16 - d))) \div 2^18
    IN  (P[1] + cB) \div 2^(18 + k)

\* int(fl(fl(pe / tp) * 100)); each stage is bound through a singleton set so
\* that it is evaluated once
FloatPercent(pe, tp) ==
    IF pe = 0 THEN 0
    ELSE CHOOSE score \in
             { FloatRoundTrunc(P, FloatScale(pe, tp)) :
                   P \in { FloatTimes100(q) : q \in {FloatQuotient(pe, tp)} } } : TRUE

-----------------------------------------------------------------------------
(* Store queries *)

RECURSIVE OrderByQuestionNumber(_)
\* ORDER BY question_number (ties in row order)
OrderByQuestionNumber(rows) ==
    IF rows = <<>> THEN <<>>
    ELSE LET i == CHOOSE i \in 1..Len(rows) :
                      \A j \in 1..Len(rows) :
                          \/ rows[i].question_number < rows[j].question_number
                          \/ (rows[i].question_number = rows[j].question_number /\ i <= j)
         IN  <<rows[i]>> \o
             OrderByQuestionNumber(SubSeq(rows, 1, i - 1) \o SubSeq(rows, i + 1, Len(rows)))

get_quiz_questions(quiz_id) ==
    LET OfQuiz(row) == row.quiz_id = quiz_id
    IN  OrderByQuestionNumber(SelectSeq(questions, OfQuiz))

get_user_quiz_attempts(user_id, quiz_id) ==
    LET Mine(row) == row.user_id = user_id /\ row.quiz_id = quiz_id
    IN  SelectSeq(attempts, Mine)

get_user_attempt_count(user_id, quiz_id) ==
    Len(get_user_quiz_attempts(user_id, quiz_id))

\* get_quiz_by_id raises 404 for a missing or unpublished quiz
QuizNotFound(quiz_id) ==
    \/ quiz_id \notin DOMAIN quizzes
    \/ ~quizzes[quiz_id].is_published

\* the attempts-remaining gate of submit_quiz
AttemptsExhausted(attempt_count, max_attempts) == attempt_count >= max_attempts

-----------------------------------------------------------------------------
(* submit_quiz: grading loop and aggregation *)

RECURSIVE SumSeq(_)
SumSeq(s) == IF s = <<>> THEN 0 ELSE Head(s) + SumSeq(Tail(s))

\* one pass of the for-loop body: the feedback entry of a question
GradeQuestion(question, answers) ==
    LET user_answer == DictGet(answers, question.id, <<>>)
        g           == grade_answer(question, user_answer)
    IN  [question_id     |-> question.id,
         question_number |-> question.question_number,
         user_answer     |-> user_answer,
         is_correct      |-> g.is_correct,
         correct_answer  |-> g.correct_answer,
         explanation     |-> g.explanation,
         points_earned   |-> IF g.is_correct THEN question.points ELSE 0,
         points_possible |-> question.points]

\* mutant: the ratio upside down
ScorePercentInverted(points_earned, total_points) ==
    IF points_earned > 0 THEN (total_points * 100) \div points_earned ELSE 0

ScorePercent(points_earned, total_points) ==
    IF total_points > 0 THEN FloatPercent(points_earned, total_points) ELSE 0

\* score and passed from the two point sums
Aggregate(quiz, qs, feedback, correct_count, points_earned, total_points) ==
    LET score == ScorePercent(points_earned, total_points)
    IN  [feedback        |-> feedback,
         correct_count   |-> correct_count,
         points_earned   |-> points_earned,
         total_points    |-> total_points,
         score           |-> score,
         total_questions |-> Len(qs),
         passed          |-> score >= quiz.passing_score]

\* correct_count and points_earned accumulated over the feedback list
Tally(quiz, qs, feedback) ==
    Aggregate(quiz, qs, feedback,
              Cardinality({i \in 1..Len(qs) : feedback[i].is_correct}),
              SumSeq([i \in 1..Len(qs) |-> feedback[i].points_earned]),
              SumSeq([i \in 1..Len(qs) |-> qs[i].points]))

\* mutant: the answers count only while the attempt history is empty
GradeSubmissionFirstAttemptOnly(quiz, qs, answers) ==
    Tally(quiz, qs, [i \in 1..Len(qs) |->
                        GradeQuestion(qs[i], IF attempts = <<>> THEN answers ELSE <<>>)])

\* everything submit_quiz computes between the attempt check and the insert
\* (the feedback list is bound through a singleton set: evaluated once)
GradeSubmission(quiz, qs, answers) ==
    CHOOSE g \in { Tally(quiz, qs, feedback) :
                       feedback \in { [i \in 1..Len(qs) |-> GradeQuestion(qs[i], answers)] } } :
        TRUE

-----------------------------------------------------------------------------
(* Inputs *)

Requests == 1..NumRequests
Users    == {1, 2}

\* a quiz id with no row in the quizzes table
MissingQuizId == 4

NoResult == [status |-> 0]

-----------------------------------------------------------------------------
(* Dates and times of the progress service                                  *)
(*                                                                         *)
(* A datetime is a number of clock instants since the epoch, in UTC; a     *)
(* date is a number of days.  Optional values are <<>> for None and <<v>>. *)

\* clock instants in a calendar day
TicksPerDay == 2

None == <<>>
Some(v) == <<v>>

\* User.timezone as an offset from UTC: user 1 keeps the default "UTC",
\* user 2 registered with a zone half a day ahead ("Etc/GMT-12")
UtcOffset == (1 :> 0) @@ (2 :> 1)

\* record.last_accessed_at.replace(tzinfo=UTC).astimezone(user_tz).date()
LocalDate(dt, user_id) == (dt + UtcOffset[user_id]) \div TicksPerDay

\* datetime.combine(date, datetime.min.time())
Midnight(date) == date * TicksPerDay

Max(a, b) == IF a >= b THEN a ELSE b

RECURSIVE SortedDescending(_)
\* sorted(activity_dates, reverse=True)
SortedDescending(dates) ==
    IF dates = {} THEN <<>>
    ELSE LET top == CHOOSE d \in dates : \A e \in dates : e <= d
         IN  <<top>> \o SortedDescending(dates \ {top})

\* mutant: the count does not stop at a gap
CountConsecutiveThroughGaps(sorted_dates, i, current_date, current_streak) ==
    Len(sorted_dates)

RECURSIVE CountConsecutive(_, _, _, _)
\* the "count consecutive days" loop of calculate_streak, from index i on
CountConsecutive(sorted_dates, i, current_date, current_streak) ==
    IF i > Len(sorted_dates) THEN current_streak
    ELSE IF sorted_dates[i] = current_date - 1
         THEN CountConsecutive(sorted_dates, i + 1, sorted_dates[i], current_streak + 1)
         ELSE IF sorted_dates[i] < current_date - 1
              THEN current_streak
              ELSE CountConsecutive(sorted_dates, i + 1, current_date, current_streak)

\* mutant: only the run that ends at the oldest date is kept
LongestRunOldestOnly(sorted_dates, i, longest_streak, temp_streak) ==
    <<1, 1>>

RECURSIVE LongestRun(_, _, _, _)
\* the "longest streak" loop: <<longest_streak, temp_streak>> after the loop
LongestRun(sorted_dates, i, longest_streak, temp_streak) ==
    IF i > Len(sorted_dates) - 1 THEN <<longest_streak, temp_streak>>
    ELSE IF sorted_dates[i] - sorted_dates[i + 1] = 1
         THEN LongestRun(sorted_dates, i + 1,
                         Max(longest_streak, temp_streak + 1), temp_streak + 1)
         ELSE LongestRun(sorted_dates, i + 1, longest_streak, 1)

\* mutant: no grace day, a user inactive since yesterday is still "active"
StreakOfWithoutGrace(records, user_id, now_instant) ==
    IF records = {}
    THEN [current_streak |-> 0, longest_streak |-> 0, last_activity_date |-> None,
          streak_status |-> "broken", days_until_broken |-> None]
    ELSE LET activity_dates == { LocalDate(r.last_accessed_at, user_id) : r \in records }
             sorted_dates   == SortedDescending(activity_dates)
             today          == LocalDate(now_instant, user_id)
             current_streak == IF sorted_dates[1] >= today - 1
                               THEN CountConsecutive(sorted_dates, 2, sorted_dates[1], 1)
                               ELSE 0
             runs           == LongestRun(sorted_dates, 1, 0, 1)
         IN  [current_streak     |-> current_streak,
              longest_streak     |-> Max(Max(runs[1], runs[2]), current_streak),
              last_activity_date |-> Some(Midnight(sorted_dates[1])),
              streak_status      |-> IF today - sorted_dates[1] <= 1 THEN "active"
                                     ELSE "broken",
              days_until_broken  |-> IF today - sorted_dates[1] <= 1 THEN Some(1)
                                     ELSE None]

\* calculate_streak after its two reads: records are the Progress objects the
\* session returned, now_instant the clock when datetime.now(user_tz) is read
StreakOf(records, user_id, now_instant) ==
    IF records = {}
    THEN [current_streak |-> 0, longest_streak |-> 0, last_activity_date |-> None,
          streak_status |-> "broken", days_until_broken |-> None]
    ELSE LET activity_dates == { LocalDate(r.last_accessed_at, user_id) : r \in records }
             sorted_dates   == SortedDescending(activity_dates)
             today          == LocalDate(now_instant, user_id)
             yesterday      == today - 1
             current_streak == IF sorted_dates[1] >= yesterday
                               THEN CountConsecutive(sorted_dates, 2, sorted_dates[1], 1)
                               ELSE 0
             runs           == LongestRun(sorted_dates, 1, 0, 1)
             days_since_activity == today - sorted_dates[1]
         IN  [current_streak     |-> current_streak,
              longest_streak     |-> Max(Max(runs[1], runs[2]), current_streak),
              last_activity_date |-> Some(Midnight(sorted_dates[1])),
              streak_status      |-> IF days_since_activity = 0 THEN "active"
                                     ELSE IF days_since_activity = 1 THEN "at_risk"
                                     ELSE "broken",
              days_until_broken  |-> IF days_since_activity = 0 THEN Some(1)
                                     ELSE IF days_since_activity = 1 THEN Some(0)
                                     ELSE None]

-----------------------------------------------------------------------------
(* The session of one request: the identity map of an AsyncSession          *)

\* rows a SELECT returns enter the identity map; an object already in the
\* map keeps its in-memory state (no populate_existing)
LoadInto(objects, ids) ==
    objects @@ [i \in ids |-> progress[i]]

\* ids of the rows of the committed table that match a predicate on user
RowsOfUser(user_id) ==
    { i \in 1..Len(progress) : progress[i].user_id = user_id }

RowsOfUserChapter(user_id, chapter_id) ==
    { i \in 1..Len(progress) :
          progress[i].user_id = user_id /\ progress[i].chapter_id = chapter_id }

\* the UPDATE the flush emits for one object: the columns whose in-memory
\* value differs from the value loaded
FlushRow(stored, loaded, current) ==
    [f \in DOMAIN stored |-> IF current[f] # loaded[f] THEN current[f] ELSE stored[f]]

MarkRequests == 1..NumMarks
\* ids of the chapters table; requests name existing chapters
Chapters == {1, 2}

IdleMark ==
    [pc |-> "idle", user_id |-> 0, chapter_id |-> 0, time_spent_seconds |-> None,
     now |-> 0, progress_id |-> 0, pending |-> None, loaded |-> <<>>, objects |-> <<>>,
     streak_info |-> None, result |-> NoResult]

NoView == [status |-> 0]


Question(id, quiz_id, number, type, config, case_sensitive, trim_whitespace, points) ==
    [id |-> id, quiz_id |-> quiz_id, question_number |-> number,
     question_type |-> type, answer_config |-> config,
     case_sensitive |-> case_sensitive, trim_whitespace |-> trim_whitespace,
     points |-> points]

\* Settings as core/config.py ships them
DefaultSettings == [QUIZ_TRIM_WHITESPACE |-> TRUE, QUIZ_CASE_INSENSITIVE |-> TRUE]

\* every value the two environment-overridable flags can take
AllSettings == [QUIZ_TRIM_WHITESPACE : BOOLEAN, QUIZ_CASE_INSENSITIVE : BOOLEAN]

\* the seeded catalogue: quiz 1 allows one attempt, quiz 2 two, quiz 3 is a draft
SeedQuizzes ==
    (1 :> [is_published |-> TRUE,  max_attempts |-> 1, passing_score |-> 70]) @@
    (2 :> [is_published |-> TRUE,  max_attempts |-> 2, passing_score |-> 50]) @@
    (3 :> [is_published |-> FALSE, max_attempts |-> 1, passing_score |-> 70])

SeedQuestions ==
    << Question(1, 1, 1, "true_false",
                [correct |-> JBool(TRUE), explanation |-> "e1"], FALSE, TRUE, 1),
       Question(2, 1, 2, "multiple_choice",
                [correct |-> JStr(<<"a">>), explanation |-> "e2"], FALSE, TRUE, 2),
       Question(3, 2, 1, "fill_in_blank",
                [correct |-> JList(<< <<"P","a","r","i","s">> >>)], FALSE, TRUE, 1) >>

\* answer maps a client posts against the seeded catalogue
SeedAnswerMaps ==
    { <<>>,
      (1 :> <<"y","e","s">>) @@ (2 :> <<" ","A">>) @@ (3 :> <<"p","a","r","i","s">>) }

NotGraded == [is_correct |-> FALSE, correct_answer |-> <<>>, explanation |-> "not graded"]
NoQuestion == Question(0, 0, 0, "none", [explanation |-> ""], FALSE, TRUE, 1)

IdleRequest ==
    [pc |-> "idle", user_id |-> 0, quiz_id |-> 0, answers |-> <<>>,
     attempt_count |-> 0, result |-> NoResult]

-----------------------------------------------------------------------------
(* Accounts, the chapter catalogue and the rate limiter *)

\* access.py: free users can access the first 3 chapters
FREE_TIER_CHAPTER_LIMIT == 3

\* in-flight register coroutines and check_rate_limit calls that are modelled
NumRegisters == 2
NumCalls == 3

RegisterRequests == 1..NumRegisters

\* the accounts behind the user ids 1 and 2: a User row has the columns of
\* models/user.py, among them tier; it has no subscription_tier
SeedUsers ==
    << [id |-> 1, name |-> "n1", email |-> "a@example.com",
        hashed_password |-> <<"hash", "p1">>, tier |-> "free", timezone |-> "UTC"],
       [id |-> 2, name |-> "n2", email |-> "b@example.com",
        hashed_password |-> <<"hash", "p2">>, tier |-> "premium",
        timezone |-> "Etc/GMT-12"] >>

\* seed_courses.py, course 1: five chapters numbered 1..5, every one with
\* the column default requires_premium = False
SeedChapters ==
    [i \in 1..5 |-> [id |-> i, course_id |-> 1, chapter_number |-> i,
                     requires_premium |-> FALSE, is_published |-> TRUE]]

\* the same chapters after the flag has been set on those beyond the free
\* limit, as the comment on Chapter.requires_premium describes
FlaggedChapters ==
    [i \in 1..5 |-> [SeedChapters[i] EXCEPT
                        !.requires_premium = (i > FREE_TIER_CHAPTER_LIMIT)]]

\* Quiz.chapter_id of the seeded quizzes
QuizChapter == (1 :> 1) @@ (2 :> 4) @@ (3 :> 2)

IdleRegister ==
    [pc |-> "idle", name |-> "", email |-> "", password |-> "", status |-> 0,
     user_id |-> 0]

\* the Redis keys rate_limit_by_user builds, one per user id
LimiterKeys == { <<"rate_limit:user:", u>> : u \in Users }

\* nobody is registering and Redis holds no sorted set
SiteIdle ==
    /\ users = SeedUsers
    /\ chapters = SeedChapters
    /\ rreq = [p \in RegisterRequests |-> IdleRegister]
    /\ limiter = [k \in LimiterKeys |-> {}]
    /\ calls = <<>>

TypeOK ==
    /\ settings \in AllSettings
    /\ \A p \in Requests : req[p].pc \in {"idle", "count", "grade", "done"}
    /\ \A i \in 1..Len(attempts) : attempts[i].id = i

Init ==
    /\ settings = DefaultSettings
    /\ quizzes = SeedQuizzes
    /\ questions = SeedQuestions
    /\ attempts = <<>>
    /\ req = [p \in Requests |-> IdleRequest]
    /\ gq = NoQuestion
    /\ ga = <<>>
    /\ gr = NotGraded
    /\ progress = <<>>
    /\ mreq = [p \in MarkRequests |-> IdleMark]
    /\ clock = 0
    /\ view = NoView
    /\ SiteIdle

-----------------------------------------------------------------------------
(* QuizService.submit_quiz, one action per stretch between two awaits *)

\* requests are numbered in order of arrival
Arrives(p) == req[p].pc = "idle" /\ \A o \in Requests : o < p => req[o].pc # "idle"

\* the call and `await self.get_quiz_by_id(quiz_id)`
submit_get_quiz(p, user_id, quiz_id, answers) ==
    /\ Arrives(p)
    /\ req' = [req EXCEPT ![p] =
                  IF QuizNotFound(quiz_id)
                  THEN [@ EXCEPT !.pc = "done", !.user_id = user_id, !.quiz_id = quiz_id,
                                 !.answers = answers, !.result = [status |-> 404]]
                  ELSE [@ EXCEPT !.pc = "count", !.user_id = user_id, !.quiz_id = quiz_id,
                                 !.answers = answers]]
    /\ UNCHANGED <<siteVars, settings, quizzes, questions, attempts, gq, ga, gr, progressVars, view>>

\* mutant: the attempt is inserted before the max_attempts check
submit_count_insert_first(p) ==
    /\ req[p].pc = "count"
    /\ \E n \in { get_user_attempt_count(req[p].user_id, req[p].quiz_id) } :
       \E g \in { GradeSubmission(quizzes[req[p].quiz_id],
                                  get_quiz_questions(req[p].quiz_id), req[p].answers) } :
           /\ attempts' = Append(attempts,
                                 [id |-> Len(attempts) + 1, user_id |-> req[p].user_id,
                                  quiz_id |-> req[p].quiz_id, attempt_number |-> n + 1,
                                  answers |-> req[p].answers, score |-> g.score,
                                  correct_count |-> g.correct_count,
                                  total_questions |-> g.total_questions,
                                  passed |-> g.passed, feedback |-> g.feedback])
           /\ req' = [req EXCEPT ![p] =
                         IF AttemptsExhausted(n, quizzes[req[p].quiz_id].max_attempts)
                         THEN [@ EXCEPT !.pc = "done", !.attempt_count = n,
                                        !.result = [status |-> 403]]
                         ELSE [@ EXCEPT !.pc = "grade", !.attempt_count = n]]
    /\ UNCHANGED <<siteVars, settings, quizzes, questions, gq, ga, gr, progressVars, view>>

\* `await self.get_user_attempt_count(...)` and the max_attempts check
submit_count(p) ==
    /\ req[p].pc = "count"
    /\ LET attempt_count == get_user_attempt_count(req[p].user_id, req[p].quiz_id)
           quiz          == quizzes[req[p].quiz_id]
       IN  req' = [req EXCEPT ![p] =
                      IF AttemptsExhausted(attempt_count, quiz.max_attempts)
                      THEN [@ EXCEPT !.pc = "done", !.attempt_count = attempt_count,
                                     !.result = [status |-> 403]]
                      ELSE [@ EXCEPT !.pc = "grade", !.attempt_count = attempt_count]]
    /\ UNCHANGED <<siteVars, settings, quizzes, questions, attempts, gq, ga, gr, progressVars, view>>

\* mutant: zero-based attempt numbers
AttemptNumberZeroBased(attempt_count) == attempt_count

\* attempt_number given to the new QuizAttempt
NextAttemptNumber(attempt_count) == attempt_count + 1

\* the QuizAttempt row built from the grading outcome
NewAttempt(id, user_id, quiz_id, attempt_count, answers, g) ==
    [id              |-> id,
     user_id         |-> user_id,
     quiz_id         |-> quiz_id,
     attempt_number  |-> NextAttemptNumber(attempt_count),
     answers         |-> answers,
     score           |-> g.score,
     correct_count   |-> g.correct_count,
     total_questions |-> g.total_questions,
     passed          |-> g.passed,
     feedback        |-> g.feedback]

\* mutant: one row per (user, quiz), overwritten by each later submission
UpsertAttempt(table, row) ==
    IF \E i \in 1..Len(table) :
           table[i].user_id = row.user_id /\ table[i].quiz_id = row.quiz_id
    THEN [i \in 1..Len(table) |->
             IF table[i].user_id = row.user_id /\ table[i].quiz_id = row.quiz_id
             THEN [row EXCEPT !.id = i] ELSE table[i]]
    ELSE Append(table, row)

\* self.db.add(quiz_attempt) and the INSERT of the commit
InsertAttempt(table, row) == Append(table, row)

\* get_quiz_questions, the grading loop, db.add + commit + refresh, the return.
\* The quiz_attempts table has a primary key on id and no other uniqueness
\* constraint, so the insert always succeeds.
submit_commit(p) ==
    /\ req[p].pc = "grade"
    /\ \E g \in { GradeSubmission(quizzes[req[p].quiz_id],
                                  get_quiz_questions(req[p].quiz_id), req[p].answers) } :
       \E row \in { NewAttempt(Len(attempts) + 1, req[p].user_id, req[p].quiz_id,
                               req[p].attempt_count, req[p].answers, g) } :
           /\ attempts' = InsertAttempt(attempts, row)
           /\ req' = [req EXCEPT ![p] =
                         [@ EXCEPT !.pc = "done",
                                   !.result = [status          |-> 200,
                                               quiz_attempt_id |-> row.id,
                                               attempt_number  |-> row.attempt_number,
                                               score           |-> g.score,
                                               points_earned   |-> g.points_earned,
                                               total_points    |-> g.total_points,
                                               correct_count   |-> g.correct_count,
                                               total_questions |-> g.total_questions,
                                               passed          |-> g.passed,
                                               feedback        |-> g.feedback]]]
    /\ UNCHANGED <<siteVars, settings, quizzes, questions, gq, ga, gr, progressVars, view>>

\* any interleaving of requests, as the event loop and several workers allow
Next ==
    \/ \E p \in Requests, u \in Users, q \in (DOMAIN SeedQuizzes) \cup {MissingQuizId},
          a \in SeedAnswerMaps : submit_get_quiz(p, u, q, a)
    \/ \E p \in Requests : submit_count(p)
    \/ \E p \in Requests : submit_commit(p)

Spec == Init /\ [][Next]_vars

-----------------------------------------------------------------------------
(* Sequential submission: a request starts only when no other is in flight *)

InFlight(p) == req[p].pc \in {"count", "grade"}

seq_submit_get_quiz(p, user_id, quiz_id, answers) ==
    /\ \A o \in Requests : ~InFlight(o)
    /\ submit_get_quiz(p, user_id, quiz_id, answers)

SeqNext ==
    \/ \E p \in Requests, u \in Users, q \in (DOMAIN SeedQuizzes) \cup {MissingQuizId},
          a \in SeedAnswerMaps : seq_submit_get_quiz(p, u, q, a)
    \/ \E p \in Requests : submit_count(p)
    \/ \E p \in Requests : submit_commit(p)

SeqSpec == Init /\ [][SeqNext]_vars

-----------------------------------------------------------------------------
(* One submission against every small quiz: the aggregation of submit_quiz *)

\* most questions in an enumerated quiz
MaxQuestions == 2

\* point values of enumerated questions (Question.points is >= 1)
PointValues == {1, 21, 29}

ScoreConfigs ==
    { [type |-> "multiple_choice", config |-> [correct |-> JStr(<<"a">>)]],
      [type |-> "true_false",      config |-> [correct |-> JBool(FALSE)]],
      [type |-> "essay",           config |-> [correct |-> JStr(<<"a">>)]] }

\* every question list of at most MaxQuestions rows for quiz 1
ScoreCatalogues ==
    UNION { { [i \in 1..n |-> Question(i, 1, i, k[i].type, k[i].config, FALSE, TRUE, pts[i])] :
                k \in [1..n -> ScoreConfigs], pts \in [1..n -> PointValues] } :
            n \in 0..MaxQuestions }

ScoreAnswers == { <<"a">>, <<"t">> }

\* every answer map over a subset of the question ids
AnswerMapsFor(qs) ==
    UNION { [ids -> ScoreAnswers] : ids \in SUBSET {qs[i].id : i \in 1..Len(qs)} }

ScoreInit ==
    /\ settings = DefaultSettings
    /\ quizzes = (1 :> [is_published |-> TRUE, max_attempts |-> 1, passing_score |-> 70])
    /\ questions \in ScoreCatalogues
    /\ attempts = <<>>
    /\ req = [p \in Requests |-> IdleRequest]
    /\ gq = NoQuestion
    /\ ga = <<>>
    /\ gr = NotGraded
    /\ progress = <<>>
    /\ mreq = [p \in MarkRequests |-> IdleMark]
    /\ clock = 0
    /\ view = NoView
    /\ SiteIdle

ScoreNext ==
    \/ \E a \in AnswerMapsFor(questions) : submit_get_quiz(1, 1, 1, a)
    \/ submit_count(1)
    \/ submit_commit(1)

ScoreSpec == ScoreInit /\ [][ScoreNext]_vars

-----------------------------------------------------------------------------
(* grade_answer applied to every enumerated question and answer *)

ShortAlphabet == {" ", "a", "A", "t"}

ShortStrings == UNION { [1..n -> ShortAlphabet] : n \in 0..MaxLen }

NamedAnswers ==
    { <<"t","r","u","e">>, <<" ","T","R","U","E","\n">>, <<"f","a","l","s","e">>,
      <<"n","o">>, <<"0">>, <<"m","a","y","b","e">>,
      <<"P","a","r","i","s">>, <<" ","p","a","r","i","s","\t">>,
      <<" ","P","A","R","I","S"," ">>, <<"p","a","r","i","s"," ","c","i","t","y">> }

UserAnswers == ShortStrings \cup NamedAnswers

McCorrect ==
    { JStr(<<"a">>), JStr(<<" ","A">>), JStr(<<>>), JStr(<<"P","a","r","i","s">>) }

TfCorrect ==
    { JBool(TRUE), JBool(FALSE), JStr(<<"t","r","u","e">>), JStr(<<"n","o">>),
      JStr(<<"m","a","y","b","e">>) }

FibCorrect ==
    { JStr(<<"a">>), JList(<< <<"A">>, <<" ","a">> >>),
      JList(<< <<"P","a","r","i","s">>, <<"p","a","r","i","s"," ","c","i","t","y">> >>) }

FibRegex ==
    { JNull, JStr(<<>>), JStr(<<"a">>), JStr(<<"A","*">>), JStr(<<".","t">>),
      JStr(<<"(","a">>), JStr(<<"*","a">>), JStr(<<"a","*","*">>) }

\* answer_config with and without the "correct" key
WithCorrect(values) == { [explanation |-> "why"] } \cup
                       { [correct |-> c, explanation |-> "why"] : c \in values }

GradeQuestions ==
    { Question(1, 1, 1, "multiple_choice", c, FALSE, TRUE, 1) : c \in WithCorrect(McCorrect) }
    \cup
    { Question(1, 1, 1, "true_false", c, FALSE, TRUE, 1) : c \in WithCorrect(TfCorrect) }
    \cup
    { Question(1, 1, 1, "fill_in_blank",
               IF r = JNull THEN c ELSE c @@ [regex |-> r], cs, tw, 1) :
          c \in WithCorrect(FibCorrect), r \in FibRegex, cs \in BOOLEAN, tw \in BOOLEAN }
    \cup
    { Question(1, 1, 1, "essay", [correct |-> JStr(<<"a">>)], FALSE, TRUE, 1) }

GradeInit ==
    /\ settings \in AllSettings
    /\ quizzes = SeedQuizzes
    /\ questions = <<>>
    /\ attempts = <<>>
    /\ req = [p \in Requests |-> IdleRequest]
    /\ gq \in GradeQuestions
    /\ ga = <<>>
    /\ gr = NotGraded
    /\ progress = <<>>
    /\ mreq = [p \in MarkRequests |-> IdleMark]
    /\ clock = 0
    /\ view = NoView
    /\ SiteIdle

\* one call grade_answer(question, user_answer)
GradeCall ==
    /\ gr = NotGraded
    /\ \E a \in UserAnswers :
           /\ ga' = a
           /\ gr' = grade_answer(gq, a)
    /\ UNCHANGED <<siteVars, settings, quizzes, questions, attempts, req, gq, progressVars, view>>

GradeNext == GradeCall

GradeSpec == GradeInit /\ [][GradeNext]_vars

-----------------------------------------------------------------------------
(* ProgressService.mark_chapter_complete, one action per stretch between    *)
(* two awaits.  The session is created with autoflush=False, so nothing is  *)
(* written to the table before `await self.db.commit()`.                    *)

\* time_spent_seconds of a request body: absent, rejected by ge=0, or a count
TimeSpentValues == { None, Some(-1), Some(2), Some(3) }

\* the Progress object of line 59
NewProgress(user_id, chapter_id, time_spent_seconds, now) ==
    [id |-> 0, user_id |-> user_id, chapter_id |-> chapter_id,
     is_completed |-> TRUE, completed_at |-> Some(now),
     time_spent_seconds |-> IF time_spent_seconds = None THEN 0
                            ELSE time_spent_seconds[1],
     last_accessed_at |-> now,
     current_streak |-> 0, longest_streak |-> 0, last_activity_date |-> None]

\* mutant: every call stamps completed_at
TouchProgressRestamping(row, time_spent_seconds, now) ==
    [row EXCEPT !.is_completed = TRUE,
                !.completed_at = Some(now),
                !.time_spent_seconds =
                    IF time_spent_seconds # None /\ time_spent_seconds[1] # 0
                    THEN @ + time_spent_seconds[1] ELSE @,
                !.last_accessed_at = now]

\* the else branch of lines 68-77 applied to the loaded object
TouchProgress(row, time_spent_seconds, now) ==
    [row EXCEPT !.is_completed = TRUE,
                !.completed_at = IF ~row.is_completed THEN Some(now) ELSE @,
                !.time_spent_seconds =
                    IF time_spent_seconds # None /\ time_spent_seconds[1] # 0
                    THEN @ + time_spent_seconds[1] ELSE @,
                !.last_accessed_at = now]

\* requests are numbered in order of arrival
MarkArrives(p) ==
    mreq[p].pc = "idle" /\ \A o \in MarkRequests : o < p => mreq[o].pc # "idle"

\* request validation, the SELECT of lines 47-53 and the code up to the first
\* await of calculate_streak
mark_select(p, user_id, chapter_id, time_spent_seconds) ==
    /\ MarkArrives(p)
    /\ LET call == [mreq[p] EXCEPT !.user_id = user_id, !.chapter_id = chapter_id,
                                   !.time_spent_seconds = time_spent_seconds,
                                   !.now = clock]
           ids  == RowsOfUserChapter(user_id, chapter_id)
       IN  mreq' = [mreq EXCEPT ![p] =
               IF time_spent_seconds # None /\ time_spent_seconds[1] < 0
               THEN [call EXCEPT !.pc = "done", !.result = [status |-> 422]]
               ELSE IF Cardinality(ids) > 1
               THEN [call EXCEPT !.pc = "done", !.result = [status |-> 500]]
               ELSE IF ids = {}
               THEN [call EXCEPT !.pc = "streak",
                                 !.pending = Some(NewProgress(user_id, chapter_id,
                                                              time_spent_seconds, clock))]
               ELSE LET id == CHOOSE i \in ids : TRUE
                    IN  [call EXCEPT !.pc = "streak", !.progress_id = id,
                                     !.loaded = (id :> progress[id]),
                                     !.objects = (id :> TouchProgress(progress[id],
                                                        time_spent_seconds, clock))]]
    /\ UNCHANGED <<siteVars, settings, quizzes, questions, attempts, req, gq, ga, gr,
                   progress, clock, view>>

\* calculate_streak: db.get(User), the SELECT of lines 219-224, the streak
mark_calculate_streak(p) ==
    /\ mreq[p].pc = "streak"
    /\ \E ids \in { RowsOfUser(mreq[p].user_id) } :
       \E objects \in { LoadInto(mreq[p].objects, ids) } :
           mreq' = [mreq EXCEPT ![p] =
               [@ EXCEPT !.pc = "update",
                         !.loaded = LoadInto(mreq[p].loaded, ids),
                         !.objects = objects,
                         !.streak_info = Some(StreakOf({ objects[i] : i \in ids },
                                                       mreq[p].user_id, clock))]]
    /\ UNCHANGED <<siteVars, settings, quizzes, questions, attempts, req, gq, ga, gr,
                   progress, clock, view>>

\* the streak columns _update_user_streak assigns to one record
WithStreak(row, streak_info) ==
    [row EXCEPT !.current_streak = streak_info.current_streak,
                !.longest_streak = streak_info.longest_streak,
                !.last_activity_date = streak_info.last_activity_date]

\* _update_user_streak after calculate_streak: the SELECT of lines 312-315
\* and the loop over the records it returned
mark_update_streak(p) ==
    /\ mreq[p].pc = "update"
    /\ \E ids \in { RowsOfUser(mreq[p].user_id) } :
       \E objects \in { LoadInto(mreq[p].objects, ids) } :
           mreq' = [mreq EXCEPT ![p] =
               [@ EXCEPT !.pc = "commit",
                         !.loaded = LoadInto(mreq[p].loaded, ids),
                         !.objects = [i \in DOMAIN objects |->
                                         IF i \in ids
                                         THEN WithStreak(objects[i], mreq[p].streak_info[1])
                                         ELSE objects[i]]]]
    /\ UNCHANGED <<siteVars, settings, quizzes, questions, attempts, req, gq, ga, gr,
                   progress, clock, view>>

\* the table after the flush: an UPDATE per changed object, then the INSERT.
\* The progress table has a primary key on id and no other uniqueness
\* constraint, so the INSERT always succeeds.
Flushed(m) ==
    LET updated == [i \in 1..Len(progress) |->
                       IF i \in DOMAIN m.objects
                       THEN FlushRow(progress[i], m.loaded[i], m.objects[i])
                       ELSE progress[i]]
    IN  IF m.pending = None THEN updated
        ELSE Append(updated, [m.pending[1] EXCEPT !.id = Len(progress) + 1])

\* commit, refresh(progress) and the returned dictionary
mark_commit(p) ==
    /\ mreq[p].pc = "commit"
    /\ \E table \in { Flushed(mreq[p]) } :
       \E row \in { table[IF mreq[p].pending = None THEN mreq[p].progress_id
                           ELSE Len(table)] } :
           /\ progress' = table
           /\ mreq' = [mreq EXCEPT ![p] =
                  [@ EXCEPT !.pc = "done", !.progress_id = row.id,
                            !.pending = None, !.loaded = <<>>, !.objects = <<>>,
                            !.result = [status             |-> 200,
                                        chapter_id         |-> mreq[p].chapter_id,
                                        is_completed       |-> row.is_completed,
                                        completed_at       |-> row.completed_at,
                                        time_spent_seconds |-> row.time_spent_seconds,
                                        last_accessed_at   |-> row.last_accessed_at]]]
    /\ UNCHANGED <<siteVars, settings, quizzes, questions, attempts, req, gq, ga, gr,
                   clock, view>>

\* time passes
Tick ==
    /\ clock < MaxTime
    /\ clock' = clock + 1
    /\ UNCHANGED <<siteVars, settings, quizzes, questions, attempts, req, gq, ga, gr,
                   progress, mreq, view>>

\* the table one call at instant 0 leaves behind: user 1 completed chapter 1
SeededProgress ==
    << [id |-> 1, user_id |-> 1, chapter_id |-> 1, is_completed |-> TRUE,
        completed_at |-> Some(0), time_spent_seconds |-> 0, last_accessed_at |-> 0,
        current_streak |-> 0, longest_streak |-> 0, last_activity_date |-> None] >>

ProgressInit ==
    /\ settings = DefaultSettings
    /\ quizzes = SeedQuizzes
    /\ questions = SeedQuestions
    /\ attempts = <<>>
    /\ req = [p \in Requests |-> IdleRequest]
    /\ gq = NoQuestion
    /\ ga = <<>>
    /\ gr = NotGraded
    /\ progress \in { <<>>, SeededProgress }
    /\ mreq = [p \in MarkRequests |-> IdleMark]
    /\ clock = 0
    /\ view = NoView
    /\ SiteIdle

\* any interleaving of mark_chapter_complete requests and of the clock
ProgressNext ==
    \/ \E p \in MarkRequests, u \in Users, c \in Chapters, t \in TimeSpentValues :
           mark_select(p, u, c, t)
    \/ \E p \in MarkRequests : mark_calculate_streak(p)
    \/ \E p \in MarkRequests : mark_update_streak(p)
    \/ \E p \in MarkRequests : mark_commit(p)
    \/ Tick

ProgressSpec == ProgressInit /\ [][ProgressNext]_vars

\* a mark_chapter_complete request starts only when no other is in flight
MarkInFlight(p) == mreq[p].pc \in {"streak", "update", "commit"}

seq_mark_select(p, user_id, chapter_id, time_spent_seconds) ==
    /\ \A o \in MarkRequests : ~MarkInFlight(o)
    /\ mark_select(p, user_id, chapter_id, time_spent_seconds)

\* the single request in flight reads the clock in mark_select and in
\* mark_calculate_streak only: an instant that passes later in the request is
\* an instant that passes after its commit
seq_Tick ==
    /\ \A o \in MarkRequests : mreq[o].pc \notin {"update", "commit"}
    /\ Tick

SeqProgressNext ==
    \/ \E p \in MarkRequests, u \in Users, c \in Chapters, t \in TimeSpentValues :
           seq_mark_select(p, u, c, t)
    \/ \E p \in MarkRequests : mark_calculate_streak(p)
    \/ \E p \in MarkRequests : mark_update_streak(p)
    \/ \E p \in MarkRequests : mark_commit(p)
    \/ seq_Tick

SeqProgressSpec == Init /\ [][SeqProgressNext]_vars

-----------------------------------------------------------------------------
(* The read-only attempt queries, and every operation one after another     *)

RECURSIVE Reverse(_)
Reverse(rows) == IF rows = <<>> THEN <<>> ELSE Reverse(Tail(rows)) \o <<Head(rows)>>

\* get_user_quiz_attempts: the user's rows for the quiz, latest first
read_user_quiz_attempts(user_id, quiz_id) ==
    /\ view' = [status |-> 200, user_id |-> user_id,
                attempts |-> Reverse(get_user_quiz_attempts(user_id, quiz_id))]
    /\ UNCHANGED <<siteVars, settings, quizzes, questions, attempts, req, gq, ga, gr, progressVars>>

\* get_attempt_by_id: 404 without a row, 403 for another user's row
read_attempt_by_id(attempt_id, user_id) ==
    /\ view' = IF attempt_id \notin 1..Len(attempts)
               THEN [status |-> 404, user_id |-> user_id, attempts |-> <<>>]
               ELSE IF attempts[attempt_id].user_id # user_id
               THEN [status |-> 403, user_id |-> user_id, attempts |-> <<>>]
               ELSE [status |-> 200, user_id |-> user_id,
                     attempts |-> <<attempts[attempt_id]>>]
    /\ UNCHANGED <<siteVars, settings, quizzes, questions, attempts, req, gq, ga, gr, progressVars>>

\* no submit_quiz and no mark_chapter_complete call is in flight
Quiet ==
    /\ \A p \in Requests : ~InFlight(p)
    /\ \A p \in MarkRequests : ~MarkInFlight(p)

\* the answer map the clients of this specification post
HistoryAnswers == (3 :> <<"p","a","r","i","s">>)

\* operations on quiz 2 and chapter 1, one at a time
HistoryNext ==
    \/ \E p \in Requests, u \in Users :
           Quiet /\ submit_get_quiz(p, u, 2, HistoryAnswers)
    \/ \E p \in Requests : submit_count(p)
    \/ \E p \in Requests : submit_commit(p)
    \/ \E u \in Users : Quiet /\ read_user_quiz_attempts(u, 2)
    \/ \E i \in 1..(Len(attempts) + 1), u \in Users : Quiet /\ read_attempt_by_id(i, u)
    \/ \E p \in MarkRequests, u \in Users :
           Quiet /\ mark_select(p, u, 1, None)
    \/ \E p \in MarkRequests : mark_calculate_streak(p)
    \/ \E p \in MarkRequests : mark_update_streak(p)
    \/ \E p \in MarkRequests : mark_commit(p)

HistorySpec == Init /\ [][HistoryNext]_vars

-----------------------------------------------------------------------------
(* GET /progress/streak over the histories a user can have built up *)

\* the latest instant of the clock in the streak histories
LastInstant == 27

\* the instants at which the user of a history may have marked a chapter:
\* both halves of some days, adjacent days, and days a week apart
ActivityInstants == {2, 3, 15, 16, 18, 19, 20, 21, 22, 23}

\* mark_chapter_complete for a chapter the user has no record of, run from
\* its SELECT to its commit with no other request in between: the streak is
\* computed and cached on the committed rows, then the new record is inserted
SequentialMark(table, user_id, chapter_id, now) ==
    LET ids  == { i \in 1..Len(table) : table[i].user_id = user_id }
        info == StreakOf({ table[i] : i \in ids }, user_id, now)
    IN  Append([i \in 1..Len(table) |->
                   IF i \in ids THEN WithStreak(table[i], info) ELSE table[i]],
               [NewProgress(user_id, chapter_id, None, now)
                   EXCEPT !.id = Len(table) + 1])

RECURSIVE HistoryOf(_, _)
\* the progress table after the user marked chapters 1, 2, ... complete at
\* the given instants, one call per instant, oldest first
HistoryOf(instants, user_id) ==
    IF instants = {} THEN <<>>
    ELSE LET latest == CHOOSE t \in instants : \A s \in instants : s <= t
         IN  SequentialMark(HistoryOf(instants \ {latest}, user_id), user_id,
                            Cardinality(instants), latest)

\* the route handler: calculate_streak(current_user.id) as StreakInfo
get_my_streak(user_id) ==
    /\ \E ids \in { RowsOfUser(user_id) } :
           view' = [status  |-> 200,
                    user_id |-> user_id,
                    streak  |-> StreakOf({ progress[i] : i \in ids }, user_id, clock)]
    /\ UNCHANGED <<siteVars, settings, quizzes, questions, attempts, req, gq, ga, gr,
                   progressVars>>

\* one user has marked chapters at some of the activity instants and the
\* clock has moved on to any later instant
StreakInit ==
    /\ settings = DefaultSettings
    /\ quizzes = SeedQuizzes
    /\ questions = SeedQuestions
    /\ attempts = <<>>
    /\ req = [p \in Requests |-> IdleRequest]
    /\ gq = NoQuestion
    /\ ga = <<>>
    /\ gr = NotGraded
    /\ \E instants \in SUBSET ActivityInstants, u \in Users :
           progress = HistoryOf(instants, u)
    /\ mreq = [p \in MarkRequests |-> IdleMark]
    /\ clock \in 0..LastInstant
    /\ \A i \in 1..Len(progress) : progress[i].last_accessed_at <= clock
    /\ view = NoView
    /\ SiteIdle

StreakNext == \E u \in Users : get_my_streak(u)

StreakSpec == StreakInit /\ [][StreakNext]_vars

-----------------------------------------------------------------------------

(* The freemium gate: access.py and the gates inlined in the routes *)

\* a chapter id with no row in the chapters table
MissingChapterId == 6

\* current_user.subscription_tier: the value of the attribute, or None when
\* the object has no such attribute (AttributeError, answered 500 by the
\* handler of main.py for every uncaught exception)
subscription_tier(current_user) ==
    IF "subscription_tier" \in DOMAIN current_user
    THEN Some(current_user.subscription_tier)
    ELSE None

\* db.get(Chapter, chapter_id)
GetChapter(chapter_id) ==
    IF chapter_id \in 1..Len(chapters) THEN Some(chapters[chapter_id]) ELSE None

\* the status check_chapter_access_by_number ends with: 200 when it returns
\* None.  The tier is the left operand of the "and" and is always read.
check_chapter_access_by_number(chapter_number, current_user) ==
    IF subscription_tier(current_user) = None THEN 500
    ELSE IF /\ subscription_tier(current_user)[1] = "free"
            /\ chapter_number > FREE_TIER_CHAPTER_LIMIT
         THEN 403
         ELSE 200

\* the gate on requires_premium that check_chapter_access, get_chapter and
\* get_chapter_quiz share: the tier is read only for a flagged chapter
PremiumGate(chapter, current_user) ==
    IF ~chapter.requires_premium THEN 200
    ELSE IF subscription_tier(current_user) = None THEN 500
    ELSE IF subscription_tier(current_user)[1] = "free" THEN 403
    ELSE 200

\* the status check_chapter_access ends with
check_chapter_access(chapter_id, current_user) ==
    IF GetChapter(chapter_id) = None THEN 404
    ELSE PremiumGate(GetChapter(chapter_id)[1], current_user)

\* the status of GET /chapters/{chapter_id}: get_chapter_by_id, the gate,
\* then the signed URL and the ChapterResponse
get_chapter(chapter_id, current_user) ==
    IF GetChapter(chapter_id) = None THEN 404
    ELSE IF ~GetChapter(chapter_id)[1].is_published THEN 404
    ELSE PremiumGate(GetChapter(chapter_id)[1], current_user)

\* get_quiz_by_chapter: the published quizzes of the chapter
QuizzesOfChapter(chapter_id) ==
    { q \in DOMAIN quizzes : QuizChapter[q] = chapter_id /\ quizzes[q].is_published }

\* the status of GET /quizzes/chapters/{chapter_id}/quiz
get_chapter_quiz(chapter_id, current_user) ==
    IF GetChapter(chapter_id) = None THEN 404
    ELSE IF PremiumGate(GetChapter(chapter_id)[1], current_user) # 200
         THEN PremiumGate(GetChapter(chapter_id)[1], current_user)
         ELSE IF QuizzesOfChapter(chapter_id) = {} THEN 404
              ELSE IF Cardinality(QuizzesOfChapter(chapter_id)) > 1 THEN 500
                   ELSE 200

GateOps == {"check_chapter_access_by_number", "check_chapter_access",
            "get_chapter", "get_chapter_quiz"}

\* one request of an authenticated user against a gate: target is the
\* chapter number for the gate by number and the chapter id for the others
gate_request(op, user_id, target) ==
    /\ view' = [op |-> op, user_id |-> user_id, target |-> target,
                status |-> CASE op = "check_chapter_access_by_number" ->
                                    check_chapter_access_by_number(target, users[user_id])
                             [] op = "check_chapter_access" ->
                                    check_chapter_access(target, users[user_id])
                             [] op = "get_chapter" ->
                                    get_chapter(target, users[user_id])
                             [] op = "get_chapter_quiz" ->
                                    get_chapter_quiz(target, users[user_id])]
    /\ UNCHANGED <<siteVars, settings, quizzes, questions, attempts, req, gq, ga, gr,
                   progressVars>>

\* the catalogue as seeded, or with the flag set beyond the free limit
AccessInit ==
    /\ settings = DefaultSettings
    /\ quizzes = SeedQuizzes
    /\ questions = SeedQuestions
    /\ attempts = <<>>
    /\ req = [p \in Requests |-> IdleRequest]
    /\ gq = NoQuestion
    /\ ga = <<>>
    /\ gr = NotGraded
    /\ progress = <<>>
    /\ mreq = [p \in MarkRequests |-> IdleMark]
    /\ clock = 0
    /\ view = NoView
    /\ users = SeedUsers
    /\ chapters \in {SeedChapters, FlaggedChapters}
    /\ rreq = [p \in RegisterRequests |-> IdleRegister]
    /\ limiter = [k \in LimiterKeys |-> {}]
    /\ calls = <<>>

\* gate requests and quiz submissions, one request at a time
AccessNext ==
    \/ \E op \in GateOps, u \in Users, target \in 1..MissingChapterId :
           Quiet /\ gate_request(op, u, target)
    \/ \E p \in Requests, u \in Users :
           Quiet /\ submit_get_quiz(p, u, 2, HistoryAnswers)
    \/ \E p \in Requests : submit_count(p)
    \/ \E p \in Requests : submit_commit(p)

AccessSpec == AccessInit /\ [][AccessNext]_vars

-----------------------------------------------------------------------------

(* POST /auth/register *)

\* the emails and passwords the clients of this specification register with:
\* the first email is the one of the seeded user 1
RegisterEmails == {"a@example.com", "c@example.com", "d@example.com"}
RegisterPasswords == {"p1", "p3"}

\* hash_password(password)
hash_password(password) == <<"hash", password>>

\* select(User).filter(User.email == email)
UsersWithEmail(email) == { i \in 1..Len(users) : users[i].email = email }

\* register up to the existence check: 409 when the SELECT finds the email
register_select(p, name, email, password) ==
    /\ rreq[p].pc = "idle"
    /\ rreq' = [rreq EXCEPT ![p] =
                   IF UsersWithEmail(email) # {}
                   THEN [@ EXCEPT !.pc = "done", !.name = name, !.email = email,
                                  !.password = password, !.status = 409]
                   ELSE [@ EXCEPT !.pc = "commit", !.name = name, !.email = email,
                                  !.password = password]]
    /\ UNCHANGED <<users, chapters, limiter, calls>>
    /\ UNCHANGED <<settings, quizzes, questions, attempts, req, gq, ga, gr,
                   progressVars, view>>

\* db.add(user), commit and refresh: the INSERT fails on the unique index of
\* users.email when a row with the email has been committed meanwhile, and
\* the IntegrityError leaves the route uncaught (500)
register_commit(p) ==
    /\ rreq[p].pc = "commit"
    /\ IF UsersWithEmail(rreq[p].email) # {}
       THEN /\ rreq' = [rreq EXCEPT ![p] = [@ EXCEPT !.pc = "done", !.status = 500]]
            /\ users' = users
       ELSE /\ users' = Append(users,
                   [id |-> Len(users) + 1, name |-> rreq[p].name,
                    email |-> rreq[p].email,
                    hashed_password |-> hash_password(rreq[p].password),
                    tier |-> "free", timezone |-> "UTC"])
            /\ rreq' = [rreq EXCEPT ![p] =
                           [@ EXCEPT !.pc = "done", !.status = 200,
                                     !.user_id = Len(users) + 1]]
    /\ UNCHANGED <<chapters, limiter, calls>>
    /\ UNCHANGED <<settings, quizzes, questions, attempts, req, gq, ga, gr,
                   progressVars, view>>

\* any interleaving of register calls
RegisterNext ==
    \/ \E p \in RegisterRequests, email \in RegisterEmails,
          password \in RegisterPasswords :
           register_select(p, "n", email, password)
    \/ \E p \in RegisterRequests : register_commit(p)

RegisterSpec == Init /\ [][RegisterNext]_vars

-----------------------------------------------------------------------------

(* The streak a user is shown over the days: marks, reads and passing days *)

\* the last calendar day the clock reaches in this specification
MaxDays == 3

\* a calendar day passes while no request is in flight
day_passes ==
    /\ (clock + TicksPerDay) \div TicksPerDay <= MaxDays
    /\ clock' = clock + TicksPerDay
    /\ UNCHANGED <<siteVars, settings, quizzes, questions, attempts, req, gq, ga, gr,
                   progress, mreq, view>>

\* user 1 marked chapter 1 on day 0 and chapter 2 on day 1
LongestInit ==
    /\ settings = DefaultSettings
    /\ quizzes = SeedQuizzes
    /\ questions = SeedQuestions
    /\ attempts = <<>>
    /\ req = [p \in Requests |-> IdleRequest]
    /\ gq = NoQuestion
    /\ ga = <<>>
    /\ gr = NotGraded
    /\ progress = HistoryOf({0, TicksPerDay}, 1)
    /\ mreq = [p \in MarkRequests |-> IdleMark]
    /\ clock = TicksPerDay
    /\ view = NoView
    /\ SiteIdle

\* user 1 marks chapters and asks for the streak, one request at a time,
\* while the days pass
LongestNext ==
    \/ \E p \in MarkRequests, c \in Chapters : seq_mark_select(p, 1, c, None)
    \/ \E p \in MarkRequests : mark_calculate_streak(p)
    \/ \E p \in MarkRequests : mark_update_streak(p)
    \/ \E p \in MarkRequests : mark_commit(p)
    \/ Quiet /\ get_my_streak(1)
    \/ Quiet /\ day_passes

LongestSpec == LongestInit /\ [][LongestNext]_vars

-----------------------------------------------------------------------------
(* GET /quizzes/{quiz_id}/attempts *)

\* mutant: the attempt a submission would use up is already deducted
AttemptsRemainingAfterNext(max_attempts, attempt_count) ==
    Max(0, max_attempts - attempt_count - 1)

\* attempts_remaining of the QuizHistoryResponse
AttemptsRemaining(max_attempts, attempt_count) ==
    Max(0, max_attempts - attempt_count)

RECURSIVE BestScore(_)
\* max((a.score for a in attempts), default=0)
BestScore(rows) ==
    IF rows = <<>> THEN 0 ELSE Max(Head(rows).score, BestScore(Tail(rows)))

\* the route handler: get_quiz_by_id, get_user_quiz_attempts, the summary
get_quiz_attempts(user_id, quiz_id) ==
    /\ view' = IF QuizNotFound(quiz_id)
               THEN [op |-> "get_quiz_attempts", status |-> 404,
                     user_id |-> user_id, quiz_id |-> quiz_id]
               ELSE LET rows == Reverse(get_user_quiz_attempts(user_id, quiz_id))
                    IN  [op |-> "get_quiz_attempts", status |-> 200,
                         user_id |-> user_id, quiz_id |-> quiz_id,
                         attempts |-> [i \in 1..Len(rows) |-> rows[i].id],
                         best_score |-> BestScore(rows),
                         attempts_remaining |->
                             AttemptsRemaining(quizzes[quiz_id].max_attempts, Len(rows)),
                         max_attempts |-> quizzes[quiz_id].max_attempts]
    /\ UNCHANGED <<siteVars, settings, quizzes, questions, attempts, req, gq, ga, gr,
                   progressVars>>

\* submissions and attempt summaries, one request at a time
RemainingNext ==
    \/ \E p \in Requests, u \in Users, q \in DOMAIN SeedQuizzes :
           Quiet /\ submit_get_quiz(p, u, q, HistoryAnswers)
    \/ \E p \in Requests : submit_count(p)
    \/ \E p \in Requests : submit_commit(p)
    \/ \E u \in Users, q \in DOMAIN SeedQuizzes \cup {MissingQuizId} :
           Quiet /\ get_quiz_attempts(u, q)

RemainingSpec == Init /\ [][RemainingNext]_vars

-----------------------------------------------------------------------------

(* The rate limiter: a sliding window kept in a Redis sorted set *)

\* core/config.py ships FREE_TIER_RATE_LIMIT = 50, PREMIUM_TIER_RATE_LIMIT =
\* 200 and RATE_LIMIT_WINDOW = 60; the model keeps their order at a small scale
FreeTierRateLimit == 1
PremiumTierRateLimit == 2
RateLimitWindow == 2

\* (limit, window) of get_rate_limit_for_tier for the tiers of the accounts
get_rate_limit_for_tier(tier) ==
    IF tier = "premium" THEN <<PremiumTierRateLimit, RateLimitWindow>>
    ELSE <<FreeTierRateLimit, RateLimitWindow>>

\* ZREMRANGEBYSCORE key 0 (current_time - window): the members that stay
AfterRemoval(members, current_time, window) ==
    { t \in members : t > current_time - window }

\* ZADD key {str(current_time): current_time}: the member is the second
\* itself, so a second that is already a member is not added again
ZAdd(members, current_time) == members \cup {current_time}

\* check_rate_limit: the pipeline runs as one MULTI/EXEC transaction.  The
\* EXPIRE of the key removes nothing the next ZREMRANGEBYSCORE would keep.
check_rate_limit(key, limit, window) ==
    LET current_time     == clock
        kept             == AfterRemoval(limiter[key], current_time, window)
        current_requests == Cardinality(kept)
    IN  /\ limiter' = [limiter EXCEPT ![key] = ZAdd(kept, current_time)]
        /\ calls' = Append(calls,
                           [key |-> key, time |-> current_time,
                            limit |-> limit, window |-> window,
                            is_allowed |-> current_requests < limit,
                            remaining |-> Max(0, limit - current_requests),
                            reset |-> current_time + window])

\* the dependency of a rate-limited route: 429 when the call is not allowed
rate_limit_by_user(user_id) ==
    /\ Len(calls) < NumCalls
    /\ \E lw \in { get_rate_limit_for_tier(users[user_id].tier) } :
           check_rate_limit(<<"rate_limit:user:", user_id>>, lw[1], lw[2])
    /\ UNCHANGED <<users, chapters, rreq>>
    /\ UNCHANGED <<settings, quizzes, questions, attempts, req, gq, ga, gr,
                   progressVars, view>>

\* requests of the two accounts arriving at any seconds
LimiterNext ==
    \/ \E u \in Users : rate_limit_by_user(u)
    \/ Tick

LimiterSpec == Init /\ [][LimiterNext]_vars

-----------------------------------------------------------------------------

(* Properties of mark_chapter_complete *)

MarkDone(p)     == mreq[p].pc = "done"
MarkReturned(p) == MarkDone(p) /\ mreq[p].result.status = 200

\* the step in which request p commits and returns
Commits(p) == mreq[p].pc = "commit" /\ mreq'[p].pc = "done"

\* the seconds a request adds: None and 0 add nothing
Supplied(time_spent_seconds) ==
    IF time_spent_seconds = None THEN 0 ELSE time_spent_seconds[1]

\* C15: a call that finds its (user, chapter) row already completed leaves
\* is_completed true and completed_at unchanged, adds the supplied
\* time_spent_seconds and moves last_accessed_at forward to the time of the
\* call; completed_at is written when the row is created and never again.
MarkCompleteIdempotent ==
    [][\A p \in MarkRequests :
           Commits(p) =>
               LET id == mreq'[p].progress_id
               IN  /\ IF mreq[p].pending = None
                      THEN progress[id].is_completed =>
                               /\ progress'[id].is_completed
                               /\ progress'[id].completed_at = progress[id].completed_at
                               /\ progress'[id].time_spent_seconds =
                                      progress[id].time_spent_seconds
                                          + Supplied(mreq[p].time_spent_seconds)
                               /\ progress'[id].last_accessed_at = mreq[p].now
                               /\ progress'[id].last_accessed_at
                                      >= progress[id].last_accessed_at
                               /\ mreq'[p].result.completed_at = progress[id].completed_at
                      ELSE /\ id = Len(progress) + 1
                           /\ progress'[id].completed_at = Some(mreq[p].now)
                   /\ \A i \in 1..Len(progress) :
                          progress'[i].completed_at = progress[i].completed_at]_vars

\* witness of C15: a row completed at instant 0, marked again two instants
\* later with more seconds
MarkedAgainLater ==
    \E p \in MarkRequests, i \in 1..Len(progress) :
        /\ MarkReturned(p) /\ mreq[p].progress_id = i
        /\ progress[i].completed_at = Some(0)
        /\ progress[i].last_accessed_at = 2
        /\ progress[i].time_spent_seconds = 5
        /\ mreq[p].result.time_spent_seconds = 5

\* C16: over any calls of mark_chapter_complete, with any supplied
\* time_spent_seconds, no row's is_completed goes from true to false and no
\* row's time_spent_seconds decreases.
CompletionAndTimeMonotonic ==
    [][\A i \in 1..Len(progress) :
           /\ progress[i].is_completed => progress'[i].is_completed
           /\ progress'[i].time_spent_seconds >= progress[i].time_spent_seconds]_vars

\* C17: in every reachable state there is at most one Progress row per
\* (user, chapter), also after concurrent first-time calls.
OneRowPerUserChapter ==
    \A u \in Users, c \in Chapters : Cardinality(RowsOfUserChapter(u, c)) <= 1

\* C18: once a request has started the streak recomputation, its progress
\* write (the new row, or the new last_accessed_at) is in the committed table,
\* and the streak it computed counts the day of the call.
StreakAfterDurableWrite ==
    \A p \in MarkRequests :
        mreq[p].pc \in {"update", "commit"} =>
            /\ \E i \in RowsOfUserChapter(mreq[p].user_id, mreq[p].chapter_id) :
                   progress[i].last_accessed_at = mreq[p].now
            /\ mreq[p].streak_info[1].last_activity_date # None
            /\ mreq[p].streak_info[1].last_activity_date[1]
                   >= Midnight(LocalDate(mreq[p].now, mreq[p].user_id))

\* the Progress rows of a user in a table
UserRecords(table, user_id) ==
    { table[i] : i \in { j \in 1..Len(table) : table[j].user_id = user_id } }

\* C19: when mark_chapter_complete returns, every Progress row of the user,
\* the row this call created included, holds the current_streak,
\* longest_streak and last_activity_date of the streak computed over the
\* user's rows as they are after the call.
StreakCacheUniform ==
    [][\A p \in MarkRequests :
           Commits(p) =>
               \A r \in UserRecords(progress', mreq[p].user_id) :
                   WithStreak(r, StreakOf(UserRecords(progress', mreq[p].user_id),
                                          mreq[p].user_id, clock)) = r]_vars

\* local days on which a user's mark_chapter_complete calls were served
DaysMarked(user_id) ==
    { LocalDate(mreq[p].now, user_id) :
          p \in { o \in MarkRequests : MarkReturned(o) /\ mreq[o].user_id = user_id } }

\* C20: every day on which the user marked a chapter complete stays among the
\* activity dates calculate_streak reads, so marks on k consecutive days
\* ending today give current_streak = k.
StreakCountsEveryMarkedDay ==
    \A u \in Users :
        LET records == UserRecords(progress, u)
            today   == LocalDate(clock, u)
        IN  /\ DaysMarked(u) \subseteq
                   { LocalDate(r.last_accessed_at, u) : r \in records }
            /\ (/\ today \in DaysMarked(u)
                /\ \A d \in DaysMarked(u) :
                       \A e \in d..today : e \in DaysMarked(u))
               => StreakOf(records, u, clock).current_streak
                      = Cardinality(DaysMarked(u))

-----------------------------------------------------------------------------
(* Properties of the attempt store *)

Done(p)     == req[p].pc = "done"
Accepted(p) == Done(p) /\ req[p].result.status = 200
Rejected(p) == Done(p) /\ req[p].result.status = 403

\* C1: for every (user, quiz), no two persisted attempts carry the same
\* attempt_number, in every interleaving of submit_quiz calls.
NoDuplicateAttemptNumbers ==
    \A i, j \in 1..Len(attempts) :
        (/\ i # j
         /\ attempts[i].user_id = attempts[j].user_id
         /\ attempts[i].quiz_id = attempts[j].quiz_id)
        => attempts[i].attempt_number # attempts[j].attempt_number

\* C2: for every (user, quiz), the number of persisted attempts never exceeds
\* quiz.max_attempts, in every interleaving of submit_quiz calls.
AttemptsWithinMax ==
    \A u \in Users, q \in DOMAIN quizzes :
        get_user_attempt_count(u, q) <= quizzes[q].max_attempts

\* C3: under sequential submission the k-th attempt persisted for a (user, quiz)
\* carries attempt_number k, the number returned is the number persisted, no
\* submission succeeds once max_attempts attempts exist, and a submission is
\* rejected with 403 only then.
SequentialAttemptNumbers ==
    /\ \A u \in Users, q \in DOMAIN quizzes :
           LET rows == get_user_quiz_attempts(u, q)
           IN  /\ \A k \in 1..Len(rows) : rows[k].attempt_number = k
               /\ Len(rows) <= quizzes[q].max_attempts
    /\ \A p \in Requests :
           /\ Accepted(p) =>
                  LET row == attempts[req[p].result.quiz_attempt_id]
                  IN  /\ row.user_id = req[p].user_id
                      /\ row.quiz_id = req[p].quiz_id
                      /\ row.attempt_number = req[p].result.attempt_number
                      /\ req[p].result.attempt_number <= quizzes[req[p].quiz_id].max_attempts
           /\ Rejected(p) =>
                  get_user_attempt_count(req[p].user_id, req[p].quiz_id)
                      = quizzes[req[p].quiz_id].max_attempts
           /\ (Done(p) /\ ~QuizNotFound(req[p].quiz_id)) => (Accepted(p) \/ Rejected(p))

\* witness of C3: a user used both attempts of quiz 2 (numbered 1 and 2) and
\* the third submission was rejected
SequentialExhausted ==
    \E u \in Users, p \in Requests :
        /\ Rejected(p) /\ req[p].user_id = u /\ req[p].quiz_id = 2
        /\ \E i, j \in 1..Len(attempts) :
               /\ attempts[i].user_id = u /\ attempts[i].quiz_id = 2
               /\ attempts[j].user_id = u /\ attempts[j].quiz_id = 2
               /\ attempts[i].attempt_number = 1 /\ attempts[j].attempt_number = 2

\* C13: the attempt history is append-only: whatever operation runs
\* (submit_quiz, get_user_quiz_attempts, get_attempt_by_id,
\* mark_chapter_complete), every persisted attempt row stays in the table with
\* every field unchanged.
AttemptsAppendOnly ==
    [][/\ Len(attempts') >= Len(attempts)
       /\ \A i \in 1..Len(attempts) : attempts'[i] = attempts[i]]_vars

\* witness of C13: two attempts of one user on quiz 2 persisted, a chapter
\* marked complete and an attempt read back
HistoryAfterEveryOperation ==
    /\ \E i, j \in 1..Len(attempts) :
           /\ i < j /\ attempts[i].user_id = attempts[j].user_id
           /\ attempts[i].quiz_id = 2 /\ attempts[j].quiz_id = 2
           /\ view.status = 200 /\ view.attempts = <<attempts[j], attempts[i]>>
    /\ \E p \in MarkRequests : MarkReturned(p)

\* a submit_quiz call that raised: 404 from get_quiz_by_id, 403 from the gate
Failed(p) == Done(p) /\ req[p].result.status \in {403, 404}

\* C14: the step in which a submit_quiz call fails (404 for a missing or
\* unpublished quiz, 403 once max_attempts attempts exist) leaves the
\* quiz_attempts table as it was, and every persisted row belongs to an
\* accepted call.
FailedSubmissionPersistsNothing ==
    /\ [][\A p \in Requests :
             (~Done(p) /\ Failed(p)') => attempts' = attempts]_vars
    /\ [](\A i \in 1..Len(attempts) :
             \E p \in Requests :
                 /\ Accepted(p) /\ req[p].result.quiz_attempt_id = i
                 /\ \A o \in Requests :
                        (Accepted(o) /\ req[o].result.quiz_attempt_id = i) => o = p)

\* witness of C14: one call failed with 404, another with 403, beside a
\* persisted attempt
BothFailuresSeen ==
    /\ attempts # <<>>
    /\ \E p, o \in Requests :
           /\ Rejected(p) /\ QuizNotFound(req[o].quiz_id)
           /\ Failed(o) /\ req[o].result.status = 404

-----------------------------------------------------------------------------
(* Properties of the aggregation *)

\* C4: a question with no entry in the answer map is graded incorrect, and an
\* empty answer map yields score 0 and correct_count 0.
MissingAnswerGradedIncorrect ==
    \A p \in Requests :
        Accepted(p) =>
            LET r == req[p].result
            IN  /\ \A i \in 1..Len(r.feedback) :
                       r.feedback[i].question_id \notin DOMAIN req[p].answers
                           => ~r.feedback[i].is_correct
                /\ (DOMAIN req[p].answers = {}) => (r.score = 0 /\ r.correct_count = 0)

\* C7: every persisted and every returned attempt has 0 <= score <= 100 and
\* correct_count <= total_questions, and score 0 when the quiz has no
\* questions.
ScoreWithinBounds ==
    /\ \A i \in 1..Len(attempts) :
           /\ attempts[i].score >= 0 /\ attempts[i].score <= 100
           /\ attempts[i].correct_count <= attempts[i].total_questions
           /\ (attempts[i].total_questions = 0 => attempts[i].score = 0)
    /\ \A p \in Requests :
           Accepted(p) =>
               /\ req[p].result.score >= 0 /\ req[p].result.score <= 100
               /\ req[p].result.correct_count <= req[p].result.total_questions
               /\ (req[p].result.total_points = 0 => req[p].result.score = 0)

\* witness of C7: a persisted attempt with some but not all points
PartialScorePersisted ==
    \E i \in 1..Len(attempts) :
        /\ attempts[i].score > 0 /\ attempts[i].score < 100
        /\ attempts[i].correct_count = 1 /\ attempts[i].total_questions = 2

\* C8: points_earned is the sum of the points of the questions graded correct,
\* total_points the sum of all question points, and
\* score = floor(points_earned * 100 / total_points), or 0 without points.
ScoreIsFloorOfPointRatio ==
    \A p \in Requests :
        Accepted(p) =>
            LET r  == req[p].result
                qs == get_quiz_questions(req[p].quiz_id)
            IN  /\ r.points_earned =
                       SumSeq([i \in 1..Len(qs) |->
                                  IF r.feedback[i].is_correct THEN qs[i].points ELSE 0])
                /\ r.total_points = SumSeq([i \in 1..Len(qs) |-> qs[i].points])
                /\ r.score = IF r.total_points > 0
                             THEN (r.points_earned * 100) \div r.total_points
                             ELSE 0

\* C11: a question of unknown type is graded incorrect with empty canonical
\* answer and explanation "Unknown question type" for every user answer, earns
\* zero points, and the other questions of the submission are still graded and
\* the attempt is persisted.
UnknownTypeGradedIncorrect ==
    /\ \A i \in 1..Len(questions) :
           questions[i].question_type \notin KnownQuestionTypes =>
               \A a \in UserAnswers :
                   grade_answer(questions[i], a)
                       = GradeResult(FALSE, <<>>, "Unknown question type")
    /\ \A p \in Requests :
           Done(p) =>
               /\ Accepted(p)
               /\ LET r  == req[p].result
                      qs == get_quiz_questions(req[p].quiz_id)
                  IN  /\ Len(r.feedback) = Len(qs)
                      /\ attempts[r.quiz_attempt_id].feedback = r.feedback
                      /\ attempts[r.quiz_attempt_id].score = r.score
                      /\ \A i \in 1..Len(qs) :
                             IF qs[i].question_type \in KnownQuestionTypes
                             THEN r.feedback[i] = GradeQuestion(qs[i], req[p].answers)
                             ELSE /\ ~r.feedback[i].is_correct
                                  /\ r.feedback[i].correct_answer = <<>>
                                  /\ r.feedback[i].explanation = "Unknown question type"
                                  /\ r.feedback[i].points_earned = 0
                      /\ r.points_earned =
                             SumSeq([i \in 1..Len(qs) |->
                                        IF /\ qs[i].question_type \in KnownQuestionTypes
                                           /\ r.feedback[i].is_correct
                                        THEN qs[i].points ELSE 0])

\* witness of C11: an unknown-type question answered with its configured
\* "correct" value, next to a question graded correct, in a persisted attempt
UnknownTypeBesideCorrectAnswer ==
    /\ Accepted(1)
    /\ Len(attempts) = 1
    /\ \E i, j \in 1..Len(req[1].result.feedback) :
           /\ questions[i].question_type = "essay"
           /\ req[1].result.feedback[i].user_answer = <<"a">>
           /\ req[1].result.feedback[j].is_correct
           /\ req[1].result.points_earned = questions[j].points

-----------------------------------------------------------------------------
(* Properties of grade_answer *)

Graded == gr # NotGraded

\* the lower-cased, stripped form a boolean word is looked up by
Unparsable(answer) == PyLower(PyStrip(answer)) \notin (BoolTrueWords \cup BoolFalseWords)

\* C5: a true_false answer in neither boolean lexicon is graded incorrect,
\* whatever the configured correct value.
UnparsableBooleanIncorrect ==
    (/\ Graded /\ gq.question_type = "true_false"
     /\ "correct" \in DOMAIN gq.answer_config
     /\ Unparsable(ga)) => ~gr.is_correct

\* the accepted answers of a fill_in_blank configuration, as a set
AcceptedSet(config) ==
    LET raw == DictGet(config, "correct", JList(<<>>))
    IN  IF raw.t = "str" THEN {raw.v} ELSE {raw.v[i] : i \in 1..Len(raw.v)}

RegexConfigured(config) == PyTruthy(DictGet(config, "regex", JNull))

\* C6: without regex the question's own flags decide: with case_sensitive an
\* answer that differs from every accepted answer only in letter case is
\* incorrect, and without trim_whitespace an answer that differs only by
\* surrounding whitespace is incorrect.
QuestionFlagsDecideNormalization ==
    (Graded /\ gq.question_type = "fill_in_blank" /\ ~RegexConfigured(gq.answer_config)) =>
        LET accepted == AcceptedSet(gq.answer_config)
            Cased(s) == IF gq.case_sensitive THEN s ELSE PyLower(s)
            trimmed  == IF gq.trim_whitespace THEN PyStrip(ga) ELSE ga
        IN  /\ (/\ gq.case_sensitive
                /\ trimmed \notin accepted
                /\ PyLower(trimmed) \in {PyLower(c) : c \in accepted})
               => ~gr.is_correct
            /\ (/\ ~gq.trim_whitespace
                /\ Cased(ga) \notin {Cased(c) : c \in accepted}
                /\ Cased(PyStrip(ga)) \in {Cased(c) : c \in accepted})
               => ~gr.is_correct

\* patterns re.compile rejects
InvalidPatterns == { <<"(","a">>, <<"*","a">>, <<"a","*","*">> }

RegexMeta == {".", "*", "("}

\* p is a prefix of s, letter case ignored when asked
IsPrefix(p, s, ignorecase) ==
    /\ Len(p) <= Len(s)
    /\ \A i \in 1..Len(p) :
           IF ignorecase THEN LowerChar(p[i]) = LowerChar(s[i]) ELSE p[i] = s[i]

RECURSIVE DropLeadingSpace(_)
DropLeadingSpace(s) ==
    IF s # <<>> /\ Head(s) \in Whitespace THEN DropLeadingSpace(Tail(s)) ELSE s

RECURSIVE DropTrailingSpace(_)
DropTrailingSpace(s) ==
    IF s # <<>> /\ s[Len(s)] \in Whitespace
    THEN DropTrailingSpace(SubSeq(s, 1, Len(s) - 1)) ELSE s

\* a and b are equal after trimming surrounding whitespace and folding case
SameAnswer(a, b) ==
    LET x == DropTrailingSpace(DropLeadingSpace(a))
        y == DropTrailingSpace(DropLeadingSpace(b))
    IN  /\ Len(x) = Len(y)
        /\ \A i \in 1..Len(x) : LowerChar(x[i]) = LowerChar(y[i])

\* C10: two multiple_choice answers equal after trimming and case folding get
\* the same grade_answer result, and an answer is correct exactly when it
\* equals the configured correct option after trimming and case folding.
MultipleChoiceInsensitive ==
    (Graded /\ gq.question_type = "multiple_choice") =>
        /\ \A b \in UserAnswers : SameAnswer(ga, b) => grade_answer(gq, b) = gr
        /\ gr.is_correct <=>
               SameAnswer(ga, DictGet(gq.answer_config, "correct", JStr(<<>>)).v)

\* witness of C10: " PARIS " is accepted for the option "Paris"
PaddedUppercaseAccepted ==
    /\ Graded /\ gq.question_type = "multiple_choice"
    /\ DictGet(gq.answer_config, "correct", JNull) = JStr(<<"P","a","r","i","s">>)
    /\ ga = <<" ","P","A","R","I","S"," ">>
    /\ gr.is_correct

-----------------------------------------------------------------------------
(* Properties of calculate_streak *)

StreakAnswered == "streak" \in DOMAIN view

\* the calendar dates, in the user's zone, of the user's progress records
ActiveDates(user_id) ==
    { LocalDate(progress[i].last_accessed_at, user_id) : i \in RowsOfUser(user_id) }

Latest(dates) == CHOOSE d \in dates : \A e \in dates : e <= d

\* the number of consecutive dates of the set that end at date d
RunEndingAt(dates, d) ==
    CHOOSE n \in 0..Cardinality(dates) :
        /\ \A k \in 0..(n - 1) : (d - k) \in dates
        /\ (d - n) \notin dates

MaxRun(dates) ==
    CHOOSE n \in 1..Cardinality(dates) :
        /\ \E d \in dates : RunEndingAt(dates, d) = n
        /\ \A d \in dates : RunEndingAt(dates, d) <= n

\* C21: the status calculate_streak reports follows the number of days since
\* the most recent active date: 0 days is "active" with one day until broken
\* and a current streak of at least 1, 1 day is "at_risk" with zero days
\* until broken, 2 days or more is "broken" with a current streak of 0 and
\* no days until broken; an empty history is 0, 0 and "broken"
StreakStatusFollowsDaysSinceActivity ==
    StreakAnswered =>
        LET s     == view.streak
            dates == ActiveDates(view.user_id)
            days_since_activity == LocalDate(clock, view.user_id) - Latest(dates)
        IN  IF dates = {}
            THEN /\ s.current_streak = 0
                 /\ s.longest_streak = 0
                 /\ s.streak_status = "broken"
            ELSE /\ days_since_activity = 0 =>
                        /\ s.streak_status = "active"
                        /\ s.days_until_broken = Some(1)
                        /\ s.current_streak >= 1
                 /\ days_since_activity = 1 =>
                        /\ s.streak_status = "at_risk"
                        /\ s.days_until_broken = Some(0)
                 /\ days_since_activity >= 2 =>
                        /\ s.streak_status = "broken"
                        /\ s.current_streak = 0
                        /\ s.days_until_broken = None

\* a user last active yesterday, after two days in a row, asks for the streak
AtRiskAfterTwoDays ==
    /\ StreakAnswered
    /\ ActiveDates(view.user_id) # {}
    /\ LocalDate(clock, view.user_id) - Latest(ActiveDates(view.user_id)) = 1
    /\ view.streak.streak_status = "at_risk"
    /\ view.streak.current_streak >= 2

\* C22: when the most recent active date is today or yesterday, the current
\* streak is the length of the run of consecutive dates ending at it
CurrentStreakIsRunEndingAtLatest ==
    (StreakAnswered /\ ActiveDates(view.user_id) # {}) =>
        LET dates == ActiveDates(view.user_id)
        IN  LocalDate(clock, view.user_id) - Latest(dates) \in {0, 1} =>
                view.streak.current_streak = RunEndingAt(dates, Latest(dates))

\* the active dates are D, D-1, D-2 and D-10 and today is D
ThreeDaysAndAnOldOne ==
    /\ StreakAnswered
    /\ LET today == LocalDate(clock, view.user_id)
       IN  ActiveDates(view.user_id) = {today, today - 1, today - 2, today - 10}
    /\ view.streak.current_streak = 3
    /\ view.streak.longest_streak = 3

\* C23: for a non-empty history the longest streak is the length of the
\* longest run of consecutive dates anywhere in the set, whatever today is,
\* and it is never less than the current streak
LongestStreakIsMaxRun ==
    (StreakAnswered /\ ActiveDates(view.user_id) # {}) =>
        /\ view.streak.longest_streak = MaxRun(ActiveDates(view.user_id))
        /\ view.streak.longest_streak >= view.streak.current_streak

\* the longest run lies in the past: three days in a row, a gap, then today
LongestRunInThePast ==
    /\ StreakAnswered
    /\ ActiveDates(view.user_id) # {}
    /\ view.streak.longest_streak = 3
    /\ view.streak.current_streak = 1
    /\ view.streak.streak_status = "active"

-----------------------------------------------------------------------------
(* Properties of the freemium gate *)

GateAnswered(ops) == "op" \in DOMAIN view /\ view.op \in ops

\* the chapter number a gate request is about
GateChapterNumber ==
    IF view.op = "check_chapter_access_by_number" THEN view.target
    ELSE chapters[view.target].chapter_number

\* C24: for every tier and every chapter the chapter gates deny exactly when
\* the user's tier is "free" and the chapter's number is greater than the
\* free chapter limit, and grant otherwise; for the gate by number and for
\* the gates by chapter id
ChapterGateDeniesFreeBeyondLimit ==
    ( /\ GateAnswered({"check_chapter_access_by_number", "check_chapter_access",
                       "get_chapter"})
      /\ view.op # "check_chapter_access_by_number" => view.target \in 1..Len(chapters) )
    => IF /\ users[view.user_id].tier = "free"
          /\ GateChapterNumber > FREE_TIER_CHAPTER_LIMIT
       THEN view.status = 403
       ELSE view.status = 200

\* C25: no quiz operation succeeds for a free-tier user on a quiz whose
\* chapter requires premium, and no attempt of a free-tier user exists for
\* such a quiz
NoFreeTierUseOfPremiumQuiz ==
    /\ ( /\ GateAnswered({"get_chapter_quiz"})
         /\ view.target \in 1..Len(chapters)
         /\ chapters[view.target].requires_premium
         /\ users[view.user_id].tier = "free" ) => view.status # 200
    /\ \A i \in 1..Len(attempts) :
           ~ ( /\ users[attempts[i].user_id].tier = "free"
               /\ chapters[QuizChapter[attempts[i].quiz_id]].requires_premium )

-----------------------------------------------------------------------------
(* Properties of register *)

OneUserPerEmail ==
    \A i, j \in 1..Len(users) : users[i].email = users[j].email => i = j

\* C26: after any interleaving of register calls there is at most one user
\* per email address, and a register call whose email already belongs to a
\* user fails with 409 Conflict, creates no user and leaves the existing
\* user's record unchanged
DuplicateEmailIsConflict ==
    /\ []OneUserPerEmail
    /\ [][\A p \in RegisterRequests :
            ( /\ rreq[p].pc # "done"
              /\ rreq'[p].pc = "done"
              /\ UsersWithEmail(rreq'[p].email) # {} )
            => /\ rreq'[p].status = 409
               /\ users' = users]_vars

\* C27: the longest streak calculate_streak returns to a user never
\* decreases from one answer to the next, whatever chapters were marked and
\* however many days passed in between
LongestStreakNeverDecreases ==
    [][( /\ StreakAnswered
         /\ "streak" \in DOMAIN view'
         /\ view'.user_id = view.user_id )
       => view'.streak.longest_streak >= view.streak.longest_streak]_vars

\* C28: time_spent_seconds is cumulative under concurrency: once the calls
\* for one (user, chapter) with times t1..tn have returned, in whatever
\* interleaving they ran, the row of the pair holds t1 + ... + tn
TimeSpentIsSumOfCalls ==
    \A u \in Users, c \in Chapters :
        ( /\ Cardinality(RowsOfUserChapter(u, c)) = 1
          /\ \A p \in MarkRequests :
                 (mreq[p].user_id = u /\ mreq[p].chapter_id = c) => MarkDone(p) )
        => LET i == CHOOSE r \in RowsOfUserChapter(u, c) : TRUE
           IN  progress[i].time_spent_seconds =
                   SumSeq([p \in 1..NumMarks |->
                              IF /\ MarkReturned(p)
                                 /\ mreq[p].user_id = u
                                 /\ mreq[p].chapter_id = c
                              THEN Supplied(mreq[p].time_spent_seconds)
                              ELSE 0])

-----------------------------------------------------------------------------
(* Properties of get_quiz_attempts *)

HistoryAnswered ==
    "op" \in DOMAIN view /\ view.op = "get_quiz_attempts" /\ view.status = 200

\* the number of persisted attempts of the user on the quiz
PersistedAttempts(user_id, quiz_id) ==
    Cardinality({ i \in 1..Len(attempts) :
                      attempts[i].user_id = user_id /\ attempts[i].quiz_id = quiz_id })

\* what is left of the quiz's allowance, never below zero
Remaining(user_id, quiz_id) ==
    IF quizzes[quiz_id].max_attempts > PersistedAttempts(user_id, quiz_id)
    THEN quizzes[quiz_id].max_attempts - PersistedAttempts(user_id, quiz_id)
    ELSE 0

\* C29: get_quiz_attempts reports attempts_remaining = max(0, max_attempts -
\* persisted attempts of the user on the quiz), and the max_attempts check of
\* a submit_quiz call for a published quiz rejects exactly when that number
\* is 0
RemainingAgreesWithGate ==
    /\ [][(view' # view /\ HistoryAnswered')
          => view'.attempts_remaining = Remaining(view'.user_id, view'.quiz_id)]_vars
    /\ [][\A p \in Requests :
             (req[p].pc = "count" /\ req'[p].pc # "count")
             => ( (req'[p].pc = "done" /\ req'[p].result.status = 403)
                  <=> Remaining(req[p].user_id, req[p].quiz_id) = 0 )]_vars

\* a user is told nothing remains of quiz 2 and the next submission is
\* rejected
ToldZeroThenRejected ==
    /\ HistoryAnswered
    /\ view.quiz_id = 2
    /\ view.attempts_remaining = 0
    /\ Len(view.attempts) = 2
    /\ \E p \in Requests :
           Rejected(p) /\ req[p].user_id = view.user_id /\ req[p].quiz_id = 2

-----------------------------------------------------------------------------
(* Properties of the rate limiter *)

\* the calls for the key of call i in the window of seconds that ends with
\* the second of call i
InWindowOf(i) ==
    { j \in 1..Len(calls) :
          /\ calls[j].key = calls[i].key
          /\ calls[j].time > calls[i].time - calls[i].window
          /\ calls[j].time <= calls[i].time }

\* C30: check_rate_limit allows at most `limit` requests of a key within any
\* span of `window` seconds, also when several requests arrive in the same
\* second, and a request is allowed exactly when fewer than `limit` requests
\* of its key were made before it in the preceding window
AtMostLimitPerWindow ==
    \A i \in 1..Len(calls) :
        /\ Cardinality({ j \in InWindowOf(i) : calls[j].is_allowed }) <= calls[i].limit
        /\ calls[i].is_allowed
               <=> Cardinality({ j \in InWindowOf(i) : j < i }) < calls[i].limit

====
